---- MODULE Spec2Model ----
(***************************************************************************)
(* Model of the /analyze request handler of src/app.py: JSON body          *)
(* validation, the rate-limit retry loop around the chat-completion call   *)
(* and the mapping of exceptions to HTTP responses.                        *)
(*                                                                         *)
(* Text is modelled as a sequence of one-character strings so that the     *)
(* substring tests of the handler are computed, not assumed.  Amounts are  *)
(* integers counting hundredths.                                           *)
(***************************************************************************)
EXTENDS Integers, Sequences, FiniteSets, TLC

\* ------------------------------------------------------------------ bounds
NumReqs ==
    2
MaxCats ==
    2

\* ------------------------------------------------------- program constants
\* variant: one more attempt
max_retries_more ==
    2 + 2

max_retries ==
    3
SLEEP_SECONDS ==
    10

\* ------------------------------------------------------------ text helpers
UpperChars ==
    <<"A","B","C","D","E","F","G","H","I","J","K","L","M","N","O","P","Q","R","S","T","U","V","W","X","Y","Z">>
LowerChars ==
    <<"a","b","c","d","e","f","g","h","i","j","k","l","m","n","o","p","q","r","s","t","u","v","w","x","y","z">>
DigitChars ==
    <<"0","1","2","3","4","5","6","7","8","9">>

UpperSet ==
    {UpperChars[i] : i \in 1..26}
DigitSet ==
    {DigitChars[i] : i \in 1..10}

LowerChar(c) ==
    IF c \in UpperSet
    THEN LowerChars[CHOOSE i \in 1..26 : UpperChars[i] = c]
    ELSE c

\* str.lower()
Lower(s) ==
    [i \in 1..Len(s) |-> LowerChar(s[i])]

\* Python's  sub in s  on strings
Contains(sub, s) ==
    \E i \in 0..(Len(s) - Len(sub)) : \A j \in 1..Len(sub) : s[i + j] = sub[j]

IsSpace(c) ==
    c = " "

RECURSIVE LStrip(_)
LStrip(s) ==
    IF s # << >> /\ IsSpace(Head(s)) THEN LStrip(Tail(s)) ELSE s

RECURSIVE RStrip(_)
RStrip(s) ==
    IF s # << >> /\ IsSpace(s[Len(s)]) THEN RStrip(SubSeq(s, 1, Len(s) - 1)) ELSE s

\* str.strip()
Strip(s) ==
    RStrip(LStrip(s))

IsDigit(c) ==
    c \in DigitSet

DigitVal(c) ==
    (CHOOSE i \in 1..10 : DigitChars[i] = c) - 1

RECURSIVE DigitsVal(_)
DigitsVal(s) ==
    IF s = << >> THEN 0
    ELSE 10 * DigitsVal(SubSeq(s, 1, Len(s) - 1)) + DigitVal(s[Len(s)])

AllDigits(s) ==
    \A i \in 1..Len(s) : IsDigit(s[i])

\* ------------------------------------------------------------ float values
\* A float is  [err, k, c] :  err names the exception float() raised ("none"
\* when it returned), k is "fin", "nan", "inf" or "ninf", c the finite value
\* in hundredths.
FloatFin(c) ==
    [err |-> "none", k |-> "fin", c |-> c]
FloatSpecial(k) ==
    [err |-> "none", k |-> k, c |-> 0]
FloatErr(e) ==
    [err |-> e, k |-> "fin", c |-> 0]

\* the unsigned part of a decimal literal: digits, at most one point, at
\* least one digit; two fractional digits are kept (the input pools hold
\* no exponent and no digit-group underscore)
ParseUnsigned(t) ==
    LET dots == {i \in 1..Len(t) : t[i] = "."}
    IN  IF dots = {}
        THEN IF t # << >> /\ AllDigits(t)
             THEN FloatFin(100 * DigitsVal(t))
             ELSE FloatErr("ValueError")
        ELSE LET d    == CHOOSE i \in dots : TRUE
                 ip   == SubSeq(t, 1, d - 1)
                 fp   == SubSeq(t, d + 1, Len(t))
                 fp2  == SubSeq(fp \o <<"0","0">>, 1, 2)
             IN  IF Cardinality(dots) = 1 /\ AllDigits(ip) /\ AllDigits(fp)
                    /\ Len(ip) + Len(fp) > 0
                 THEN FloatFin(100 * DigitsVal(ip) + DigitsVal(fp2))
                 ELSE FloatErr("ValueError")

Negate(f) ==
    IF f.err # "none" THEN f
    ELSE IF f.k = "inf" THEN FloatSpecial("ninf")
    ELSE IF f.k = "ninf" THEN FloatSpecial("inf")
    ELSE IF f.k = "nan" THEN f
    ELSE FloatFin(0 - f.c)

\* float(str): surrounding blanks are ignored, then an optional sign and
\* either nan / inf / infinity in any case or a decimal literal
ParseFloat(s) ==
    LET t    == Strip(s)
        neg  == t # << >> /\ Head(t) = "-"
        sgn  == t # << >> /\ Head(t) \in {"-", "+"}
        u    == IF sgn THEN Tail(t) ELSE t
        lu   == Lower(u)
        mag  == IF lu = <<"n","a","n">> THEN FloatSpecial("nan")
                ELSE IF lu \in {<<"i","n","f">>, <<"i","n","f","i","n","i","t","y">>} THEN FloatSpecial("inf")
                ELSE ParseUnsigned(u)
    IN  IF neg THEN Negate(mag) ELSE mag

\* ------------------------------------------------------------- JSON values
\* A decoded JSON value is [t, n, s]: t its Python type, n the number in
\* hundredths (bool: 0/1, list and dict: the length), s the text of a str.
JNull ==
    [t |-> "NoneType", n |-> 0, s |-> << >>]
JBool(b) ==
    [t |-> "bool", n |-> IF b THEN 1 ELSE 0, s |-> << >>]
JNum(c) ==
    [t |-> "number", n |-> c, s |-> << >>]
JNaN ==
    [t |-> "nan", n |-> 0, s |-> << >>]
JBigInt ==
    [t |-> "bigint", n |-> 1, s |-> << >>]
JStr(s) ==
    [t |-> "str", n |-> 0, s |-> s]
JList(len) ==
    [t |-> "list", n |-> len, s |-> << >>]
JDict(len) ==
    [t |-> "dict", n |-> len, s |-> << >>]

\* float(v)
Float(v) ==
    CASE v.t = "number" -> FloatFin(v.n)
      [] v.t = "bool"   -> FloatFin(100 * v.n)
      [] v.t = "nan"    -> FloatSpecial("nan")
      [] v.t = "bigint" -> FloatErr("OverflowError")
      [] v.t = "str"    -> ParseFloat(v.s)
      [] OTHER          -> FloatErr("TypeError")

\* bool(v)
Truthy(v) ==
    CASE v.t = "NoneType" -> FALSE
      [] v.t = "bool"     -> v.n = 1
      [] v.t = "number"   -> v.n # 0
      [] v.t = "nan"      -> TRUE
      [] v.t = "bigint"   -> TRUE
      [] v.t = "str"      -> v.s # << >>
      [] OTHER            -> v.n > 0

\* str(v).strip() == ""   (only a str can print as blanks)
StrBlank(v) ==
    v.t = "str" /\ Strip(v.s) = << >>

\* f < 0
BelowZero(f) ==
    f.k = "ninf" \/ (f.k = "fin" /\ f.c < 0)

\* ---------------------------------------------------------------- requests
\* A request body: syntax is "ok" or the JSON decoder's complaint, top the
\* Python type of the decoded document; for a dict, the two keys the handler
\* reads.  items are the (category, amount) pairs of an expenses object in
\* document order.
Categories ==
    <<"rent", "food_out", "travel">>

ObjectBody(hasIncome, income, hasExpenses, expenses, items) ==
    [syntax |-> "ok", top |-> "dict", hasIncome |-> hasIncome, income |-> income,
     hasExpenses |-> hasExpenses, expenses |-> expenses, items |-> items]

OtherBody(syntax, top) ==
    [syntax |-> syntax, top |-> top, hasIncome |-> FALSE, income |-> JNull,
     hasExpenses |-> FALSE, expenses |-> JNull, items |-> << >>]

\* ---------------------------------------------------------------- responses
Response(status, error, advice) ==
    [status |-> status, error |-> error, advice |-> advice]

Returned(resp) ==
    [kind |-> "return", resp |-> resp, exc |-> << >>]
Raised(msg) ==
    [kind |-> "raise", resp |-> Response(0, << >>, ""), exc |-> msg]
Passed ==
    [kind |-> "pass", resp |-> Response(0, << >>, ""), exc |-> << >>]

\* str() of the BadRequest raised by request.get_json(force=True) on a body
\* that does not decode; the decoder's detail is kept only when app.debug
BadRequestText(syntax, dbg) ==
    IF ~dbg
    THEN <<"4","0","0"," ","B","a","d"," ","R","e","q","u","e","s","t",":"," ","T","h","e"," ","b","r","o","w","s","e","r"," ","(","o","r"," ","p","r","o","x","y",")"," ","s","e","n","t"," ","a"," ","r","e","q","u","e","s","t"," ","t","h","a","t"," ","t","h","i","s"," ","s","e","r","v","e","r"," ","c","o","u","l","d"," ","n","o","t"," ","u","n","d","e","r","s","t","a","n","d",".">>
    ELSE IF syntax = "control_character"
    THEN <<"4","0","0"," ","B","a","d"," ","R","e","q","u","e","s","t",":"," ","F","a","i","l","e","d"," ","t","o"," ","d","e","c","o","d","e"," ","J","S","O","N"," ","o","b","j","e","c","t",":"," ","I","n","v","a","l","i","d"," ","c","o","n","t","r","o","l"," ","c","h","a","r","a","c","t","e","r"," ","a","t",":"," ","l","i","n","e"," ","1"," ","c","o","l","u","m","n"," ","1","2"," ","(","c","h","a","r"," ","1","1",")">>
    ELSE <<"4","0","0"," ","B","a","d"," ","R","e","q","u","e","s","t",":"," ","F","a","i","l","e","d"," ","t","o"," ","d","e","c","o","d","e"," ","J","S","O","N"," ","o","b","j","e","c","t",":"," ","E","x","p","e","c","t","i","n","g"," ","v","a","l","u","e",":"," ","l","i","n","e"," ","1"," ","c","o","l","u","m","n"," ","1"," ","(","c","h","a","r"," ","0",")">>

\* str() of the AttributeError raised by data.get on a document that is not
\* an object
TypeText(top) ==
    CASE top = "list"     -> <<"l","i","s","t">>
      [] top = "NoneType" -> <<"N","o","n","e","T","y","p","e">>
      [] top = "str"      -> <<"s","t","r">>
      [] top = "int"      -> <<"i","n","t">>
      [] OTHER            -> <<"d","i","c","t">>

NoGetText(top) ==
    <<"'">> \o TypeText(top) \o <<"'"," ","o","b","j","e","c","t"," ","h","a","s"," ","n","o"," ","a","t","t","r","i","b","u","t","e"," ","'","g","e","t","'">>

OverflowText ==
    <<"i","n","t"," ","t","o","o"," ","l","a","r","g","e"," ","t","o"," ","c","o","n","v","e","r","t"," ","t","o"," ","f","l","o","a","t">>

\* the loop over expenses.items(): the first offending amount decides
RECURSIVE ParseExpenses(_)
ParseExpenses(items) ==
    IF items = << >> THEN Passed
    ELSE LET category == items[1][1]
             amount   == items[1][2]
             val      == IF Truthy(amount) THEN Float(amount) ELSE FloatFin(0)
         IN  IF val.err = "OverflowError" THEN Raised(OverflowText)
             ELSE IF val.err \in {"ValueError", "TypeError"} \/ BelowZero(val)
             THEN Returned(Response(400, <<"Invalid amount for '", category, "'.">>, ""))
             ELSE ParseExpenses(Tail(items))

ValidateExpenses(b) ==
    LET isDict == ~b.hasExpenses \/ b.expenses.t = "dict"
        empty  == ~b.hasExpenses \/ ~Truthy(b.expenses)
    IN  IF ~isDict \/ empty
        THEN Returned(Response(400, <<"At least one expense category is required.">>, ""))
        ELSE ParseExpenses(b.items)

\* variant: a negative income is let through
ValidateIncomeAnySign(b) ==
    LET isNone == ~b.hasIncome \/ b.income.t = "NoneType"
        f      == Float(b.income)
    IN  IF isNone \/ StrBlank(b.income)
        THEN Returned(Response(400, <<"Monthly income is required.">>, ""))
        ELSE IF f.err = "OverflowError" THEN Raised(OverflowText)
        ELSE IF f.err \in {"ValueError", "TypeError"}
        THEN Returned(Response(400, <<"Income must be a valid positive number.">>, ""))
        ELSE Passed

ValidateIncome(b) ==
    LET isNone == ~b.hasIncome \/ b.income.t = "NoneType"
        f      == Float(b.income)
    IN  IF isNone \/ StrBlank(b.income)
        THEN Returned(Response(400, <<"Monthly income is required.">>, ""))
        ELSE IF f.err = "OverflowError" THEN Raised(OverflowText)
        ELSE IF f.err \in {"ValueError", "TypeError"} \/ BelowZero(f)
        THEN Returned(Response(400, <<"Income must be a valid positive number.">>, ""))
        ELSE Passed

\* lines 35-61: decode, then income, then expenses
ValidateRequest(b, dbg) ==
    IF b.syntax # "ok" THEN Raised(BadRequestText(b.syntax, dbg))
    ELSE IF b.top # "dict" THEN Raised(NoGetText(b.top))
    ELSE IF ValidateIncome(b).kind # "pass" THEN ValidateIncome(b)
    ELSE ValidateExpenses(b)

\* ------------------------------------------------------ exception handling
\* variant: any API error text is taken for a rate limit
IsRateLimitedLoose(err_str) ==
    Contains(<<"r","a","t","e">>, err_str) \/ Contains(<<"4","2","9">>, err_str) \/ Contains(<<"l","i","m","i","t">>, err_str)
        \/ Contains(<<"e","r","r","o","r">>, err_str)

\* the retry test of the inner handler, on the lower-cased message
IsRateLimited(err_str) ==
    Contains(<<"r","a","t","e">>, err_str) \/ Contains(<<"4","2","9">>, err_str) \/ Contains(<<"l","i","m","i","t">>, err_str)

\* variant: only the word authenticate is looked for
IsAuthMessageNarrow(error_msg) ==
    Contains(<<"a","u","t","h","e","n","t","i","c","a","t","e">>, error_msg)

\* the 401 test of the outer handler, on the lower-cased message
IsAuthMessage(error_msg) ==
    Contains(<<"a","p","i","_","k","e","y">>, error_msg) \/ Contains(<<"i","n","v","a","l","i","d">>, error_msg)
        \/ Contains(<<"a","u","t","h","e","n","t","i","c","a","t","e">>, error_msg)

\* except Exception as exc  (lines 136-141)
HandleException(msg) ==
    IF IsAuthMessage(Lower(msg))
    THEN Response(401, <<"Invalid API key. Please check your GROQ_API_KEY in the .env file.">>, "")
    ELSE Response(500, <<"Something went wrong while generating advice. Please try again.">>, "")

RateLimitResponse ==
    Response(429, <<"Groq API rate limit reached. Please wait 30-60 seconds and try again.">>, "")

\* variant: the last attempt retries too
MayRetryAlways(attempt) ==
    attempt < max_retries

\* variant: gives up one attempt early
MayRetryEarly(attempt) ==
    attempt < max_retries - 2

\* attempt < max_retries - 1
MayRetry(attempt) ==
    attempt < max_retries - 1

\* range(max_retries) has a value after attempt
HasNextAttempt(attempt) ==
    attempt + 1 < max_retries

\* ------------------------------------------------------ chat-completion API
\* What one call of client.chat.completions.create and the read of
\* response.choices[0].message.content can produce: kind is what happened
\* ("ok", "rate", "auth", "other"), cls the exception class, msg its str().
ApiOk(content) ==
    [kind |-> "ok", cls |-> "none", msg |-> << >>, content |-> content]
ApiError(kind, cls, msg) ==
    [kind |-> kind, cls |-> cls, msg |-> msg, content |-> ""]

RateLimitError ==
    ApiError("rate", "RateLimitError",
        <<"E","r","r","o","r"," ","c","o","d","e",":"," ","4","2","9"," ","-"," ","{","'","e","r","r","o","r","'",":"," ","{","'","m","e","s","s","a","g","e","'",":"," ","'","R","a","t","e"," ","l","i","m","i","t"," ","r","e","a","c","h","e","d"," ","f","o","r"," ","m","o","d","e","l"," ","l","l","a","m","a","-","3",".","3","-","7","0","b","-","v","e","r","s","a","t","i","l","e","'",","," ","'","t","y","p","e","'",":"," ","'","t","o","k","e","n","s","'",","," ","'","c","o","d","e","'",":"," ","'","r","a","t","e","_","l","i","m","i","t","_","e","x","c","e","e","d","e","d","'","}","}">>)
AuthenticationError ==
    ApiError("auth", "AuthenticationError",
        <<"E","r","r","o","r"," ","c","o","d","e",":"," ","4","0","1"," ","-"," ","{","'","e","r","r","o","r","'",":"," ","{","'","m","e","s","s","a","g","e","'",":"," ","'","I","n","v","a","l","i","d"," ","A","P","I"," ","K","e","y","'",","," ","'","t","y","p","e","'",":"," ","'","i","n","v","a","l","i","d","_","r","e","q","u","e","s","t","_","e","r","r","o","r","'",","," ","'","c","o","d","e","'",":"," ","'","i","n","v","a","l","i","d","_","a","p","i","_","k","e","y","'","}","}">>)
ModelDecommissioned ==
    ApiError("other", "BadRequestError",
        <<"E","r","r","o","r"," ","c","o","d","e",":"," ","4","0","0"," ","-"," ","{","'","e","r","r","o","r","'",":"," ","{","'","m","e","s","s","a","g","e","'",":"," ","'","T","h","e"," ","m","o","d","e","l"," ","l","l","a","m","a","-","3",".","3","-","7","0","b","-","v","e","r","s","a","t","i","l","e"," ","h","a","s"," ","b","e","e","n"," ","d","e","c","o","m","m","i","s","s","i","o","n","e","d"," ","a","n","d"," ","i","s"," ","n","o"," ","l","o","n","g","e","r"," ","s","u","p","p","o","r","t","e","d",".","'",","," ","'","t","y","p","e","'",":"," ","'","i","n","v","a","l","i","d","_","r","e","q","u","e","s","t","_","e","r","r","o","r","'",","," ","'","c","o","d","e","'",":"," ","'","m","o","d","e","l","_","d","e","c","o","m","m","i","s","s","i","o","n","e","d","'","}","}">>)
ConnectionError ==
    ApiError("other", "APIConnectionError", <<"C","o","n","n","e","c","t","i","o","n"," ","e","r","r","o","r",".">>)
EmptyChoices ==
    ApiError("other", "IndexError", <<"l","i","s","t"," ","i","n","d","e","x"," ","o","u","t"," ","o","f"," ","r","a","n","g","e">>)

\* variant: the advice is dropped
SuccessResponseEmpty(o) ==
    Response(200, << >>, "")

\* jsonify({"advice": response.choices[0].message.content})
SuccessResponse(o) ==
    Response(200, << >>, o.content)

Advices ==
    {"## Budget Overview", "## Warnings"}

ApiOutcomes ==
    {ApiOk(a) : a \in Advices}
        \cup {RateLimitError, AuthenticationError, ModelDecommissioned, ConnectionError, EmptyChoices}

\* ------------------------------------------------------------- input pools
IncomeVals ==
    {JNull, JStr(<< >>), JStr(<<" ">>), JStr(<<"a","b","c">>), JStr(<<"-","5">>), JStr(<<" ","1","2",".","5"," ">>),
     JStr(<<"N","a","N">>), JNum(500000), JNum(0), JNum(-100), JBool(TRUE), JList(1), JBigInt}

AmountVals ==
    {JNull, JStr(<< >>), JStr(<<"a","b","c">>), JNum(0), JNum(2000), JNum(-300),
     JList(0), JBigInt}

NonDictExpenses ==
    {JNull, JList(1), JStr(<<"x">>), JNum(500)}

ItemSeqs ==
    UNION {{[i \in 1..n |-> <<Categories[i], f[i]>>] : f \in [1..n -> AmountVals]} : n \in 0..MaxCats}

ObjectBodies ==
    {ObjectBody(hi, inc, TRUE, JDict(Len(items)), items) :
        hi \in BOOLEAN, inc \in IncomeVals, items \in ItemSeqs}
    \cup {ObjectBody(hi, inc, TRUE, e, << >>) :
        hi \in BOOLEAN, inc \in IncomeVals, e \in NonDictExpenses}
    \cup {ObjectBody(hi, inc, FALSE, JNull, << >>) : hi \in BOOLEAN, inc \in IncomeVals}

OtherBodies ==
    {OtherBody("expecting_value", "NoneType"), OtherBody("control_character", "NoneType")}
    \cup {OtherBody("ok", t) : t \in {"list", "NoneType", "str", "int"}}

\* a missing income key carries no value
Bodies ==
    {b \in ObjectBodies : b.hasIncome \/ b.income = JNull} \cup OtherBodies

ConcBodies ==
    {ObjectBody(TRUE, JNum(500000), TRUE, JDict(1), <<<<"rent", JNull>>>>),
     ObjectBody(TRUE, JNum(-100), TRUE, JDict(1), <<<<"rent", JNum(2000)>>>>),
     OtherBody("ok", "list")}

\* -------------------------------------------------------------------- state
VARIABLES debug, body, pc, attempt, trace, resp

vars ==
    <<debug, body, pc, attempt, trace, resp>>

Reqs ==
    1..NumReqs

CallEvent(o) ==
    [e |-> "call", out |-> o, secs |-> 0]
SleepEvent(secs) ==
    [e |-> "sleep", out |-> ApiOk(""), secs |-> secs]

\* one request arrives, over the whole input pool
Init ==
    /\ debug \in BOOLEAN
    /\ \E b \in Bodies : body = [r \in Reqs |-> IF r = 1 THEN b ELSE OtherBody("ok", "NoneType")]
    /\ pc = [r \in Reqs |-> IF r = 1 THEN "recv" ELSE "idle"]
    /\ attempt = [r \in Reqs |-> 0]
    /\ trace = [r \in Reqs |-> << >>]
    /\ resp = [r \in Reqs |-> << >>]

\* NumReqs requests are in flight together
InitConc ==
    /\ debug \in BOOLEAN
    /\ body \in [Reqs -> ConcBodies]
    /\ pc = [r \in Reqs |-> "recv"]
    /\ attempt = [r \in Reqs |-> 0]
    /\ trace = [r \in Reqs |-> << >>]
    /\ resp = [r \in Reqs |-> << >>]

\* variant: one counter shared by all requests
BumpAttemptShared(att, r) ==
    [q \in Reqs |-> att[q] + 1]

\* the loop variable of  for attempt in range(max_retries)  is a local
BumpAttempt(att, r) ==
    [att EXCEPT ![r] = @ + 1]

\* what the handler does with the outcome v of validation
Answer(r, v) ==
    IF v.kind = "pass"
    THEN /\ pc' = [pc EXCEPT ![r] = "call"]
         /\ attempt' = [attempt EXCEPT ![r] = 0]
         /\ resp' = resp
    ELSE /\ pc' = [pc EXCEPT ![r] = "done"]
         /\ attempt' = attempt
         /\ resp' = [resp EXCEPT ![r] = Append(@,
                 IF v.kind = "return" THEN v.resp ELSE HandleException(v.exc))]

\* lines 35-104: decode and validate; a rejected body is answered here
Validate(r) ==
    /\ pc[r] = "recv"
    /\ Answer(r, ValidateRequest(body[r], debug))
    /\ UNCHANGED <<debug, body, trace>>

\* lines 106-134: one call of the API and what the handlers make of it
CallApi(r) ==
    /\ pc[r] = "call"
    /\ \E o \in ApiOutcomes :
        /\ trace' = [trace EXCEPT ![r] = Append(@, CallEvent(o))]
        /\ IF o.kind = "ok"
           THEN /\ resp' = [resp EXCEPT ![r] = Append(@, SuccessResponse(o))]
                /\ pc' = [pc EXCEPT ![r] = "done"]
           ELSE IF IsRateLimited(Lower(o.msg))
           THEN IF MayRetry(attempt[r])
                THEN /\ resp' = resp
                     /\ pc' = [pc EXCEPT ![r] = "sleep"]
                ELSE /\ resp' = [resp EXCEPT ![r] = Append(@, RateLimitResponse)]
                     /\ pc' = [pc EXCEPT ![r] = "done"]
           ELSE /\ resp' = [resp EXCEPT ![r] = Append(@, HandleException(o.msg))]
                /\ pc' = [pc EXCEPT ![r] = "done"]
    /\ UNCHANGED <<debug, body, attempt>>

\* lines 126-127: time.sleep(10); continue.  When range(max_retries) is
\* exhausted the function falls off its end without a response.
Sleep(r) ==
    /\ pc[r] = "sleep"
    /\ trace' = [trace EXCEPT ![r] = Append(@, SleepEvent(SLEEP_SECONDS))]
    /\ pc' = [pc EXCEPT ![r] = IF HasNextAttempt(attempt[r]) THEN "call" ELSE "done"]
    /\ attempt' = BumpAttempt(attempt, r)
    /\ UNCHANGED <<debug, body, resp>>

Next ==
    \E r \in Reqs : Validate(r) \/ CallApi(r) \/ Sleep(r)

Spec ==
    Init /\ [][Next]_vars

\* an API call returns or raises within the client's timeout, and a sleep ends
SpecLive ==
    Init /\ [][Next]_vars /\ \A r \in Reqs : WF_vars(CallApi(r) \/ Sleep(r))

SpecConc ==
    InitConc /\ [][Next]_vars

\* ------------------------------------------------------------- observations
Done(r) ==
    pc[r] = "done"

Calls(r) ==
    Cardinality({i \in 1..Len(trace[r]) : trace[r][i].e = "call"})

Sleeps(r) ==
    Cardinality({i \in 1..Len(trace[r]) : trace[r][i].e = "sleep"})

IsCall(ev) ==
    ev.e = "call"

\* the outcomes of the request's own API calls, in order
Outs(r) ==
    LET cs == SelectSeq(trace[r], IsCall) IN [i \in 1..Len(cs) |-> cs[i].out]

Answered(r, status) ==
    Len(resp[r]) = 1 /\ resp[r][1].status = status

\* v is something float() turns into a value that is not below zero
NonNegNumber(v) ==
    Float(v).err = "none" /\ ~BelowZero(Float(v))

\* the request the specification describes: an object with a non-negative
\* numeric income and a non-empty mapping of non-negative numeric amounts
ClaimedValid(b) ==
    /\ b.syntax = "ok" /\ b.top = "dict"
    /\ b.hasIncome /\ ~StrBlank(b.income) /\ NonNegNumber(b.income)
    /\ b.hasExpenses /\ b.expenses.t = "dict" /\ b.items # << >>
    /\ \A i \in 1..Len(b.items) : NonNegNumber(b.items[i][2])

\* as ClaimedValid, but an amount that is falsy (null, "", 0, false, [], {})
\* counts as 0
Accepted(b) ==
    /\ b.syntax = "ok" /\ b.top = "dict"
    /\ b.hasIncome /\ ~StrBlank(b.income) /\ NonNegNumber(b.income)
    /\ b.hasExpenses /\ b.expenses.t = "dict" /\ b.items # << >>
    /\ \A i \in 1..Len(b.items) : ~Truthy(b.items[i][2]) \/ NonNegNumber(b.items[i][2])

\* ------------------------------------------------------------------- claims

\* C1 (as stated): the API is called, and the handler sleeps, only for a
\* request whose income is a non-negative number and whose expenses is a
\* non-empty mapping of non-negative numbers.
C1_CallsOnlyForNumericAmounts ==
    \A r \in Reqs : ClaimedValid(body[r]) \/ (Calls(r) = 0 /\ Sleeps(r) = 0)

\* C1 (amended): the API is called, and the handler sleeps, only for a
\* request whose income converts to a value not below zero and whose expenses
\* is a non-empty mapping in which every amount is falsy or converts to a
\* value not below zero; every other body makes no call and no sleep.
C1_CallsOnlyForAcceptedBodies ==
    \A r \in Reqs : Accepted(body[r]) \/ (Calls(r) = 0 /\ Sleeps(r) = 0)

C1_Witness ==
    \E r \in Reqs :
        /\ Calls(r) > 0
        /\ \E i \in 1..Len(body[r].items) : ~NonNegNumber(body[r].items[i][2])

\* C2: every request that fails validation (not a JSON object, or income or
\* expenses not as described) is answered with status 400 and an error text.
C2_InvalidAnswered400 ==
    \A r \in Reqs :
        (Done(r) /\ ~ClaimedValid(body[r])) =>
            (Answered(r, 400) /\ resp[r][1].error # << >>)

\* C3: a request makes at most 3 API calls.
C3_AtMostThreeCalls ==
    \A r \in Reqs : Calls(r) <= 3

C3_Witness ==
    \E r \in Reqs : Calls(r) = 3 /\ Done(r)

C6_AuthErrorAnswered401 ==
    \A r \in Reqs :
        \A i \in 1..Len(trace[r]) :
            (trace[r][i].e = "call" /\ trace[r][i].out.kind = "auth") =>
                (i = Len(trace[r]) /\ Done(r) /\ Answered(r, 401))

C6_Witness ==
    \E r \in Reqs : Calls(r) = 3 /\ Outs(r)[3].kind = "auth"

\* C7: 401 is answered only after an authentication error of the API, 400
\* only for a validation failure, and every failure that is neither a
\* validation failure, nor an authentication error, nor three rate limits
\* is answered with 500.
C7_OtherFailures500 ==
    \A r \in Reqs :
        (Done(r) /\ Len(resp[r]) = 1) =>
            LET outs       == Outs(r)
                n          == Len(outs)
                authFail   == n > 0 /\ outs[n].kind = "auth"
                success    == n > 0 /\ outs[n].kind = "ok"
                exhausted  == n = 3 /\ \A i \in 1..n : outs[i].kind = "rate"
                validation == n = 0
            IN  /\ Answered(r, 401) => authFail
                /\ Answered(r, 400) => (validation /\ ~ClaimedValid(body[r]))
                /\ (~success /\ ~validation /\ ~authFail /\ ~exhausted) => Answered(r, 500)

\* C8: when the k-th call succeeds after k-1 rate limits the answer is 200
\* with that call's content as advice, and that call is the last event.
C8_SuccessRelaysAdvice ==
    \A r \in Reqs :
        LET outs == Outs(r)
            k    == Len(outs)
        IN  (/\ k \in 1..3
             /\ outs[k].kind = "ok"
             /\ \A j \in 1..(k - 1) : outs[j].kind = "rate") =>
                /\ Done(r)
                /\ resp[r] = <<Response(200, << >>, outs[k].content)>>
                /\ trace[r][Len(trace[r])] = CallEvent(outs[k])
                /\ Sleeps(r) = k - 1

C8_Witness ==
    \E r \in Reqs : Calls(r) = 3 /\ Outs(r)[3].kind = "ok" /\ Answered(r, 200)

\* C9: a request that enters the retry loop always leaves it, and a finished
\* request, rejected by validation or not, has exactly one response, whose
\* status is 200, 400, 401, 429 or 500; the loop is never left without one.
C9_TerminatesWithOneResponse ==
    \A r \in Reqs :
        /\ (pc[r] = "call") ~> Done(r)
        /\ [](Done(r) =>
                (Len(resp[r]) = 1 /\ resp[r][1].status \in {200, 400, 401, 429, 500}))

C9_Witness ==
    \E r \in Reqs : Done(r) /\ Calls(r) = 3 /\ Sleeps(r) = 2 /\ Answered(r, 500)

\* what a request gets when it runs alone: a function of its body, of
\* app.debug and of the outcomes of its own calls
RECURSIVE SoloLoop(_, _)
SoloLoop(outs, att) ==
    IF outs = << >> THEN [resp |-> << >>, calls |-> att]
    ELSE LET o == Head(outs)
         IN  IF o.kind = "ok" THEN [resp |-> <<SuccessResponse(o)>>, calls |-> att + 1]
             ELSE IF IsRateLimited(Lower(o.msg))
             THEN IF att < 2 THEN SoloLoop(Tail(outs), att + 1)
                  ELSE [resp |-> <<RateLimitResponse>>, calls |-> att + 1]
             ELSE [resp |-> <<HandleException(o.msg)>>, calls |-> att + 1]

SoloRun(b, dbg, outs) ==
    LET v == ValidateRequest(b, dbg)
    IN  IF v.kind = "return" THEN [resp |-> <<v.resp>>, calls |-> 0]
        ELSE IF v.kind = "raise" THEN [resp |-> <<HandleException(v.exc)>>, calls |-> 0]
        ELSE SoloLoop(outs, 0)

\* C10: with requests interleaved, each finished request has the response
\* and the numbers of calls and sleeps that its own body and its own call
\* outcomes give it when it runs alone, and its attempt counter counts only
\* its own sleeps.
C10_RequestsIndependent ==
    \A r \in Reqs :
        /\ Done(r) =>
            LET run == SoloRun(body[r], debug, Outs(r))
            IN  /\ resp[r] = run.resp
                /\ Calls(r) = run.calls
                /\ Sleeps(r) = IF run.calls = 0 THEN 0 ELSE run.calls - 1
        /\ pc[r] \in {"call", "sleep"} => attempt[r] = Sleeps(r)

C10_Witness ==
    \E r \in Reqs, q \in Reqs :
        /\ r # q
        /\ Done(r) /\ Answered(r, 429)
        /\ pc[q] = "sleep" /\ Calls(q) = 1

====
